---- MODULE Spec2Model ----
\* Prompt Enhancer: the serverless handler api/enhancePrompt.js, the browser
\* controller js/script.js that calls it, and the vercel.json header rule that
\* sits between them.
EXTENDS Integers, Sequences, FiniteSets, TLC

\* ------------------------------------------------------------------ bounds
\* enhancePrompt() calls of the page that may be in progress at once
MaxCalls == 2
\* handler invocations that may be alive at once
MaxInvocations == 1

\* ------------------------------------------------------------- JS values
\* A text is a sequence of chunks; a chunk is one whitespace character or a
\* run of non-whitespace characters.  The empty text is <<>>.
Whitespace == {" ", "\t"}

Undefined == [t |-> "undefined", s |-> <<>>, n |-> 0]

Null == [t |-> "null", s |-> <<>>, n |-> 0]

Str(s) == [t |-> "string", s |-> s, n |-> 0]

Num(n) == [t |-> "number", s |-> <<>>, n |-> n]

\* ToBoolean
Truthy(v) ==
  CASE v.t = "string" -> v.s # <<>>
    [] v.t = "number" -> v.n # 0
    [] OTHER -> FALSE

\* a || b
OrElse(a, b) == IF Truthy(a) THEN a ELSE b

RECURSIVE TrimStart(_)
TrimStart(s) ==
  IF s # <<>> /\ Head(s) \in Whitespace THEN TrimStart(Tail(s)) ELSE s

RECURSIVE TrimEnd(_)
TrimEnd(s) ==
  IF s # <<>> /\ s[Len(s)] \in Whitespace
  THEN TrimEnd(SubSeq(s, 1, Len(s) - 1))
  ELSE s

\* String.prototype.trim
Trim(s) == TrimEnd(TrimStart(s))

\* --------------------------------------------------------- HTTP messages
EmptyBody == [kind |-> "empty", error |-> Undefined, enhancedPrompt |-> Undefined]

\* res.json({ error })
ErrorBody(msg) == [kind |-> "json", error |-> Str(<<msg>>), enhancedPrompt |-> Undefined]

\* res.json({ enhancedPrompt })
ResultBody(v) == [kind |-> "json", error |-> Undefined, enhancedPrompt |-> v]

\* req.body as the platform hands it to the handler: absent, or the parsed
\* JSON object (a field the object lacks reads as undefined)
NoBody == [present |-> FALSE, prompt |-> Undefined, style |-> Undefined, creativity |-> Undefined]

JsonObject(p, s, c) == [present |-> TRUE, prompt |-> p, style |-> s, creativity |-> c]

\* vercel.json: headers for every response of a route matching /api/(.*)
CorsHeaders ==
  { <<"Access-Control-Allow-Origin", "*">>,
    <<"Access-Control-Allow-Methods", "GET, POST, OPTIONS">>,
    <<"Access-Control-Allow-Headers", "Content-Type">> }

EndpointPath == <<"api", "enhancePrompt">>

RouteHeaders(path) == IF Len(path) >= 2 /\ path[1] = "api" THEN CorsHeaders ELSE {}

Response(status, body) ==
  [status |-> status, body |-> body, headers |-> RouteHeaders(EndpointPath)]

\* ------------------------------------------------- api/enhancePrompt.js
\* String(v) as a template literal embeds it
TemplateText(v) ==
  CASE v.t = "string" -> v.s
    [] v.t = "number" -> <<ToString(v.n)>>
    [] v.t = "null" -> <<"null">>
    [] OTHER -> <<"undefined">>

enhancementInstruction(style, creativity) ==
  <<"Enhance the following prompt using ">> \o TemplateText(style)
    \o <<" style with creativity level ">> \o TemplateText(creativity)
    \o <<"/10.\nApply prompt engineering best practices to make it more effective for AI interaction.\nReturn only the enhanced prompt without any additional explanations.">>

\* a slip: the pre-flight test names another method
IsPreflightHead(method) == method = "HEAD"

\* req.method === 'OPTIONS'
IsPreflight(method) == method = "OPTIONS"

\* a slip: GET is let through to the body handling as well
IsPostOrGet(method) == method \in {"POST", "GET"}

\* the negation of req.method !== 'POST'
IsPost(method) == method = "POST"

\* req.body || {}
BodyOrEmpty(body) == IF body.present THEN body ELSE NoBody

\* a slip: prompt === undefined, which lets the empty string through
MissingPromptUndefinedOnly(prompt) == prompt.t = "undefined"

\* !prompt
MissingPrompt(prompt) == ~Truthy(prompt)

\* the temperature of the completion request, as <<numerator, denominator>>
Temperature(creativity) == <<7, 10>>

\* the argument of openai.chat.completions.create
ChatRequest(b) ==
  [ model |-> "",
    messages |-> << [role |-> "system", content |-> enhancementInstruction(b.style, b.creativity)],
                    [role |-> "user", content |-> b.prompt.s] >>,
    temperature |-> Temperature(b.creativity) ]

\* a slip: the caught error's message is sent to the caller
CatchResponseWithDetail(error) == Response(500, ErrorBody(error))

\* the catch block: the error is logged, the response does not depend on it
CatchResponse(error) == Response(500, ErrorBody("Failed to enhance prompt"))

\* A completion is [isNull, choices]: choices is <<>> when the field is
\* absent, else <<list>>; a choice is [message], <<>> when absent, else
\* <<[content |-> v]>>.
\* a slip: the last choice is read instead of the first
LastContent(completion) ==
  IF completion.choices = <<>> THEN Undefined
  ELSE LET list == completion.choices[1] IN
    IF list = <<>> THEN Undefined
    ELSE IF list[Len(list)].message = <<>> THEN Undefined
    ELSE list[Len(list)].message[1].content

\* completion.choices?.[0]?.message?.content
FirstContent(completion) ==
  IF completion.choices = <<>> THEN Undefined
  ELSE LET list == completion.choices[1] IN
    IF list = <<>> THEN Undefined
    ELSE IF list[1].message = <<>> THEN Undefined
    ELSE list[1].message[1].content

\* ... || ''
ExtractEnhancedPrompt(completion) == OrElse(FirstContent(completion), Str(<<>>))

\* An invocation: the request, the steps it reached, the completion request
\* it sent (<<>> or one), the error it caught (<<>> or one), the completion
\* it received (<<>> or one), its response (<<>> while it awaits).
NewInvocation(req, origin) ==
  [ req |-> req, origin |-> origin, trace |-> {}, sent |-> <<>>, thrown |-> <<>>,
    completion |-> <<>>, res |-> <<>> ]

\* The handler up to its first await.  keyPresent: OPENAI_API_KEY is set;
\* ctorThrows: the OpenAI constructor rejects a missing key.
HandlerStart(req, origin, keyPresent, ctorThrows) ==
  LET inv == NewInvocation(req, origin) IN
  IF IsPreflight(req.method) THEN
    [inv EXCEPT !.trace = {"preflight"}, !.res = <<Response(200, EmptyBody)>>]
  ELSE IF ~IsPost(req.method) THEN
    [inv EXCEPT !.trace = {"method"},
                !.res = <<Response(405, ErrorBody("Method not allowed"))>>]
  ELSE LET b == BodyOrEmpty(req.body) IN
    IF MissingPrompt(b.prompt) THEN
      [inv EXCEPT !.trace = {"body", "validate"},
                  !.res = <<Response(400, ErrorBody("Missing prompt"))>>]
    ELSE IF ~keyPresent /\ ctorThrows THEN
      [inv EXCEPT !.trace = {"body", "validate", "client"},
                  !.thrown = <<"OPENAI_API_KEY missing">>,
                  !.res = <<CatchResponse("OPENAI_API_KEY missing")>>]
    ELSE
      [inv EXCEPT !.trace = {"body", "validate", "client", "create"},
                  !.sent = <<ChatRequest(b)>>]

\* The handler from the rejection of the awaited call
HandlerRejected(inv, error) ==
  [inv EXCEPT !.thrown = <<error>>, !.res = <<CatchResponse(error)>>]

\* The handler from the resolution of the awaited call; reading .choices of
\* a null completion throws a TypeError inside the try block
HandlerResolved(inv, completion) ==
  IF completion.isNull THEN
    [inv EXCEPT !.completion = <<completion>>, !.thrown = <<"TypeError">>,
                !.res = <<CatchResponse("TypeError")>>]
  ELSE
    [inv EXCEPT !.completion = <<completion>>,
                !.res = <<Response(200, ResultBody(ExtractEnhancedPrompt(completion)))>>]

\* --------------------------------------------------------- js/script.js
\* Number(creativityEl.value): the range input's value is a decimal numeral
NumberOf(value) == CHOOSE n \in 0..10 : ToString(n) = value

\* a slip: the value is tested without trim()
IsBlankUntrimmed(value) == value = <<>>

\* !prompt, for prompt = promptEl.value.trim()
IsBlank(value) == Trim(value) = <<>>

\* a slip: the button is left enabled during the call
EnabledWhileBusy == FALSE

\* enhanceBtn.disabled = true
DisabledWhileBusy == TRUE

\* the body of the POST: JSON.stringify of { prompt, style, creativity }
RequestBody(promptValue, styleValue, creativityValue) ==
  JsonObject(Str(Trim(promptValue)), Str(<<styleValue>>), Num(NumberOf(creativityValue)))

\* res.ok
Ok(status) == status >= 200 /\ status <= 299

\* textContent = v
TextContent(v) == TemplateText(v)

\* a slip: no fallback for an empty enhancedPrompt
SuccessTextNoFallback(data) == TextContent(data.enhancedPrompt)

\* data.enhancedPrompt || 'No result'
SuccessText(data) == TextContent(OrElse(data.enhancedPrompt, Str(<<"No result">>)))

\* data.error || 'Failed to enhance prompt'
FailureText(data) == TextContent(OrElse(data.error, Str(<<"Failed to enhance prompt">>)))

\* the catch block
CatchText == <<"Network error">>

\* res.json() rejects unless the body arrives whole and is JSON text
Decodable(body) == body.kind = "json"

\* the text shown once res.json() has settled
SettledText(res) ==
  IF ~Decodable(res.body) THEN CatchText
  ELSE IF Ok(res.status) THEN SuccessText(res.body)
  ELSE FailureText(res.body)

\* a slip: the button is not re-enabled
DisabledAfterCallStuck == TRUE

\* the finally block: enhanceBtn.disabled
DisabledAfterCall == FALSE

\* the finally block: loader.classList.add('hidden')
LoaderHiddenAfterCall == TRUE

\* ---------------------------------------------------------------- inputs
Methods == {"OPTIONS", "GET", "POST", "PUT"}

PromptValues == {Undefined, Str(<<>>), Str(<<" ">>), Str(<<"Write a poem">>)}

StyleValues == {Undefined, Str(<<"creative">>)}

CreativityNumbers == {Undefined, Num(0), Num(8)}

\* what any caller may send to the endpoint
Requests ==
  [ method : Methods,
    body : {NoBody} \cup
           {JsonObject(p, s, c) : p \in PromptValues, s \in StyleValues, c \in CreativityNumbers} ]

Choice(v) == [message |-> <<[content |-> v]>>]

\* what the completion API may resolve with
Completions ==
  { [isNull |-> TRUE, choices |-> <<>>],
    [isNull |-> FALSE, choices |-> <<>>],
    [isNull |-> FALSE, choices |-> << <<>> >>],
    [isNull |-> FALSE, choices |-> << <<[message |-> <<>>]>> >>],
    [isNull |-> FALSE, choices |-> << <<Choice(Null)>> >>],
    [isNull |-> FALSE, choices |-> << <<Choice(Str(<<>>))>> >>],
    [isNull |-> FALSE, choices |-> << <<Choice(Str(<<"A refined poem prompt...">>)), Choice(Str(<<"second">>))>> >>] }

\* those of them the page can tell apart
PageCompletions ==
  { c \in Completions :
      c.isNull \/ c.choices = <<>> \/ (c.choices[1] # <<>> /\ c.choices[1][1].message # <<>>
                                        /\ c.choices[1][1].message[1].content.t = "string"
                                        /\ c.choices[1][1].message[1].content.s # <<>>) }

\* what the completion API may reject with
ApiErrors == {"ETIMEDOUT", "401 Incorrect API key provided"}

\* what the user may type
TextareaValues == {<<>>, <<" ">>, <<" ", "Write a poem", " ">>}

\* <<select value, slider value>>: the page's defaults, and another choice
FormChoices == {<<"concise", "5">>, <<"creative", "8">>}

HtmlBody == [kind |-> "html", error |-> Undefined, enhancedPrompt |-> Undefined]

\* a body whose transfer broke off
AbortedBody == [kind |-> "aborted", error |-> Undefined, enhancedPrompt |-> Undefined]

EmptyObject == [kind |-> "json", error |-> Undefined, enhancedPrompt |-> Undefined]

\* what the page may receive from the platform instead of the handler's
\* response: the rewrite of /(.*) to /index.html, a gateway error page, a
\* JSON body without the fields
ForeignResponses ==
  { [status |-> 200, body |-> HtmlBody, headers |-> {}],
    [status |-> 504, body |-> HtmlBody, headers |-> {}],
    [status |-> 502, body |-> EmptyObject, headers |-> {}] }

\* ----------------------------------------------------------------- state
VARIABLES
  apiKey,              \* process.env.OPENAI_API_KEY is set
  invocations,         \* handler invocations: awaiting, or responded and not yet served
  promptEl,            \* the textarea's value
  enhanceBtnDisabled,  \* enhanceBtn.disabled
  loaderHidden,        \* loader has class hidden
  resultEl,            \* resultEl.textContent
  alertOpen,           \* the alert dialog is showing
  calls                \* enhancePrompt() calls in progress

vars ==
  << apiKey, invocations, promptEl, enhanceBtnDisabled, loaderHidden, resultEl,
     alertOpen, calls >>

server == <<apiKey, invocations>>

busyState == <<enhanceBtnDisabled, loaderHidden>>

page == <<promptEl, enhanceBtnDisabled, loaderHidden, resultEl, alertOpen>>

Init ==
  /\ apiKey \in BOOLEAN
  /\ invocations = <<>>
  /\ promptEl = <<>>
  /\ enhanceBtnDisabled = FALSE
  /\ loaderHidden = TRUE
  /\ resultEl = <<>>
  /\ alertOpen = FALSE
  /\ calls = <<>>

RemoveAt(s, i) == SubSeq(s, 1, i - 1) \o SubSeq(s, i + 1, Len(s))

\* the connection of a new request: the first one no call holds
FreshId ==
  CHOOSE n \in 1..(MaxCalls + 1) :
    /\ \A i \in DOMAIN calls : calls[i].id # n
    /\ \A m \in 1..(n - 1) : \E i \in DOMAIN calls : calls[i].id = m

\* the page lets go of connection id: an invocation still running for it
\* has no one to answer (origin 0, like a caller that is not the page)
Closed(invs, id) ==
  [ j \in DOMAIN invs |->
      IF invs[j].origin = id THEN [invs[j] EXCEPT !.origin = 0] ELSE invs[j] ]

\* the response of a served invocation goes to the call that awaits it
Route(cs, inv) ==
  [ i \in DOMAIN cs |->
      IF cs[i].id = inv.origin /\ cs[i].net = "atServer"
      THEN [cs[i] EXCEPT !.net = "responded", !.res = inv.res]
      ELSE cs[i] ]

\* ------------------------------------------------------- endpoint actions
\* a request of any caller other than the page reaches the handler
DirectRequest(req) ==
  /\ Len(invocations) < MaxInvocations
  /\ \E ctorThrows \in (IF apiKey THEN {FALSE} ELSE BOOLEAN) :
       invocations' = Append(invocations, HandlerStart(req, 0, apiKey, ctorThrows))
  /\ UNCHANGED <<apiKey, page, calls>>

\* the page's POST reaches the handler
Deliver(i) ==
  /\ calls[i].net = "sent"
  /\ Len(invocations) < MaxInvocations
  /\ \E ctorThrows \in (IF apiKey THEN {FALSE} ELSE BOOLEAN) :
       invocations' =
         Append(invocations, HandlerStart(calls[i].req, calls[i].id, apiKey, ctorThrows))
  /\ calls' = [calls EXCEPT ![i].net = "atServer"]
  /\ UNCHANGED <<apiKey, page>>

\* the awaited completion call resolves (it cannot without a credential)
CompletionResolves(j, completion) ==
  /\ invocations[j].res = <<>>
  /\ apiKey
  /\ invocations' = [invocations EXCEPT ![j] = HandlerResolved(@, completion)]
  /\ UNCHANGED <<apiKey, page, calls>>

\* the awaited completion call rejects
CompletionRejects(j, error) ==
  /\ invocations[j].res = <<>>
  /\ apiKey \/ error = "401 Incorrect API key provided"
  /\ invocations' = [invocations EXCEPT ![j] = HandlerRejected(@, error)]
  /\ UNCHANGED <<apiKey, page, calls>>

\* the platform writes out the response of an invocation that returned
Serve(j) ==
  /\ invocations[j].res # <<>>
  /\ invocations' = RemoveAt(invocations, j)
  /\ calls' = Route(calls, invocations[j])
  /\ UNCHANGED <<apiKey, page>>

\* ----------------------------------------------------------- page actions
\* the user edits the textarea
TypePrompt(v) ==
  /\ ~alertOpen /\ promptEl # v
  /\ promptEl' = v
  /\ UNCHANGED <<server, busyState, resultEl, alertOpen, calls>>

\* enhancePrompt() from the click to its return or its first await, with the
\* select and the slider as the user left them; a disabled button dispatches
\* no click
Click(styleValue, creativityValue) ==
  /\ ~alertOpen /\ ~enhanceBtnDisabled
  /\ Len(calls) < MaxCalls
  /\ IF IsBlank(promptEl)
     THEN /\ alertOpen' = TRUE
          /\ UNCHANGED <<busyState, calls>>
     ELSE /\ loaderHidden' = FALSE
          /\ enhanceBtnDisabled' = DisabledWhileBusy
          /\ calls' = Append(calls,
               [ id |-> FreshId, pc |-> "fetch", net |-> "sent", res |-> <<>>,
                 req |-> [method |-> "POST",
                          body |-> RequestBody(promptEl, styleValue, creativityValue)] ])
          /\ UNCHANGED alertOpen
  /\ UNCHANGED <<server, promptEl, resultEl>>

\* the user closes the alert; alert() returns and so does enhancePrompt()
DismissAlert ==
  /\ alertOpen
  /\ alertOpen' = FALSE
  /\ UNCHANGED <<server, promptEl, busyState, resultEl, calls>>

\* the platform answers in the handler's place
ForeignResponse(i, res) ==
  /\ calls[i].pc = "fetch" /\ calls[i].net \in {"sent", "atServer"}
  /\ calls' = [calls EXCEPT ![i].net = "responded", ![i].res = <<res>>]
  /\ invocations' = Closed(invocations, calls[i].id)
  /\ UNCHANGED <<apiKey, page>>

\* await fetch(...) resumes with the response
FetchResolves(i) ==
  /\ ~alertOpen
  /\ calls[i].pc = "fetch" /\ calls[i].net = "responded"
  /\ calls' = [calls EXCEPT ![i].pc = "json"]
  /\ UNCHANGED <<server, page>>

\* await fetch(...) throws: catch, finally, return
FetchRejects(i) ==
  /\ ~alertOpen
  /\ calls[i].pc = "fetch"
  /\ resultEl' = CatchText
  /\ loaderHidden' = LoaderHiddenAfterCall
  /\ enhanceBtnDisabled' = DisabledAfterCall
  /\ calls' = RemoveAt(calls, i)
  /\ invocations' = Closed(invocations, calls[i].id)
  /\ UNCHANGED <<apiKey, promptEl, alertOpen>>

\* the transfer of the response body breaks off
BodyAborts(i) ==
  /\ calls[i].pc = "json" /\ calls[i].res[1].body.kind # "aborted"
  /\ calls' = [calls EXCEPT ![i].res = <<[@[1] EXCEPT !.body = AbortedBody]>>]
  /\ UNCHANGED <<server, page>>

\* await res.json() resumes or throws: the branches, catch, finally, return
JsonSettles(i) ==
  /\ ~alertOpen
  /\ calls[i].pc = "json"
  /\ resultEl' = SettledText(calls[i].res[1])
  /\ loaderHidden' = LoaderHiddenAfterCall
  /\ enhanceBtnDisabled' = DisabledAfterCall
  /\ calls' = RemoveAt(calls, i)
  /\ invocations' = Closed(invocations, calls[i].id)
  /\ UNCHANGED <<apiKey, promptEl, alertOpen>>

\* the endpoint, called by anyone
Next ==
  \/ \E req \in Requests : DirectRequest(req)
  \/ \E j \in DOMAIN invocations, c \in Completions : CompletionResolves(j, c)
  \/ \E j \in DOMAIN invocations, e \in ApiErrors : CompletionRejects(j, e)
  \/ \E j \in DOMAIN invocations : Serve(j)

Spec == Init /\ [][Next]_vars

\* the page, the platform and the endpoint the page calls
PageNext ==
  \/ \E v \in TextareaValues : TypePrompt(v)
  \/ \E f \in FormChoices : Click(f[1], f[2])
  \/ DismissAlert
  \/ \E i \in DOMAIN calls : Deliver(i)
  \/ \E j \in DOMAIN invocations, c \in PageCompletions : CompletionResolves(j, c)
  \/ \E j \in DOMAIN invocations, e \in ApiErrors : CompletionRejects(j, e)
  \/ \E j \in DOMAIN invocations : Serve(j)
  \/ \E i \in DOMAIN calls, res \in ForeignResponses : ForeignResponse(i, res)
  \/ \E i \in DOMAIN calls : FetchResolves(i)
  \/ \E i \in DOMAIN calls : FetchRejects(i)
  \/ \E i \in DOMAIN calls : BodyAborts(i)
  \/ \E i \in DOMAIN calls : JsonSettles(i)

PageSpec == Init /\ [][PageNext]_vars

\* every promise the page awaits settles: the network stack resolves or
\* rejects a fetch, and a body read ends
FairPageSpec ==
  /\ PageSpec
  /\ WF_vars(\E i \in DOMAIN calls : FetchResolves(i) \/ FetchRejects(i))
  /\ WF_vars(\E i \in DOMAIN calls : JsonSettles(i))

\* ------------------------------------------------------- endpoint claims
Invocations == {invocations[j] : j \in DOMAIN invocations}

Responded == {inv \in Invocations : inv.res # <<>>}

PromptOf(inv) == BodyOrEmpty(inv.req.body).prompt

CreativityOf(inv) == BodyOrEmpty(inv.req.body).creativity

OnlyWhitespace(text) == \A k \in DOMAIN text : text[k] \in Whitespace

MissingPromptResponse == <<Response(400, ErrorBody("Missing prompt"))>>

\* C1 as stated: a POST whose prompt is absent, empty or only whitespace is
\* answered 400 {error: "Missing prompt"} and sends nothing to the
\* completion API.
C1_BlankPromptRejected ==
  \A inv \in Invocations :
    (inv.req.method = "POST"
       /\ (PromptOf(inv).t = "undefined"
             \/ (PromptOf(inv).t = "string" /\ OnlyWhitespace(PromptOf(inv).s))))
      => (inv.res = MissingPromptResponse /\ inv.sent = <<>>)

\* C1 amended: a POST whose prompt is absent or the empty string is answered
\* 400 {error: "Missing prompt"} and sends nothing to the completion API.
C1_EmptyPromptRejected ==
  \A inv \in Invocations :
    (inv.req.method = "POST"
       /\ (PromptOf(inv).t = "undefined" \/ PromptOf(inv) = Str(<<>>)))
      => (inv.res = MissingPromptResponse /\ inv.sent = <<>>)

C1_Witness ==
  \E inv \in Invocations :
    /\ inv.req.method = "POST" /\ inv.req.body.present
    /\ inv.req.body.prompt = Str(<<>>)
    /\ inv.res # <<>> /\ inv.res[1].status = 400

\* equality of <<numerator, denominator>> pairs
SameRatio(a, b) == a[1] * b[2] = b[1] * a[2]

\* C2: the temperature sent to the completion API is creativity/10 when
\* creativity is a truthy number and 0.5 when it is absent, zero or falsy.
C2_TemperatureFromCreativity ==
  \A inv \in Invocations :
    inv.sent # <<>> =>
      SameRatio(inv.sent[1].temperature,
                IF Truthy(CreativityOf(inv)) THEN <<CreativityOf(inv).n, 10>> ELSE <<5, 10>>)

\* C3: whenever the handler catches an error (the constructor throwing for a
\* missing credential, the completion call rejecting, a null completion),
\* the response is 500 {error: "Failed to enhance prompt"}, the same for
\* every error.
C3_GenericServerError ==
  \A inv \in Invocations :
    inv.thrown # <<>> =>
      /\ inv.res # <<>>
      /\ inv.res[1].status = 500
      /\ inv.res[1].body = [kind |-> "json", error |-> Str(<<"Failed to enhance prompt">>),
                            enhancedPrompt |-> Undefined]

C3_Witness ==
  \E inv \in Invocations :
    /\ inv.sent # <<>>
    /\ inv.thrown = <<"401 Incorrect API key provided">>
    /\ inv.res # <<>> /\ inv.res[1].status = 500

\* C4: a request whose method is neither POST nor OPTIONS is answered 405
\* {error: "Method not allowed"} whatever its body, and reaches neither the
\* reading of the body, the prompt validation nor the completion call.
C4_MethodNotAllowed ==
  \A inv \in Invocations :
    inv.req.method \notin {"POST", "OPTIONS"} =>
      /\ inv.res # <<>>
      /\ inv.res[1].status = 405
      /\ inv.res[1].body = [kind |-> "json", error |-> Str(<<"Method not allowed">>),
                            enhancedPrompt |-> Undefined]
      /\ inv.trace \cap {"body", "validate", "client", "create"} = {}
      /\ inv.sent = <<>>

C4_Witness ==
  \E inv \in Invocations :
    /\ inv.req.method = "GET" /\ inv.req.body.present
    /\ inv.req.body.prompt = Str(<<"Write a poem">>)
    /\ inv.res # <<>> /\ inv.res[1].status = 405

PresentPrompt(inv) ==
  inv.req.method = "POST" /\ PromptOf(inv).t = "string" /\ PromptOf(inv).s # <<>>

\* the content of the first choice, when there is one and it is not empty
HasContent(c) ==
  /\ c.choices # <<>>
  /\ c.choices[1] # <<>>
  /\ c.choices[1][1].message # <<>>
  /\ Truthy(c.choices[1][1].message[1].content)

\* C5 as stated: every POST with a non-empty prompt is answered 200 with an
\* enhancedPrompt string.
C5_AlwaysSuccess ==
  \A inv \in Responded :
    PresentPrompt(inv) =>
      /\ inv.res[1].status = 200
      /\ inv.res[1].body.enhancedPrompt.t = "string"

\* C5 amended: a POST with a non-empty prompt whose completion call resolves
\* with a completion object is answered 200 with an enhancedPrompt string:
\* the first choice's message content, or the empty string when there is no
\* choice or no content.
C5_SuccessWhenResolved ==
  \A inv \in Responded :
    (PresentPrompt(inv) /\ inv.completion # <<>> /\ ~inv.completion[1].isNull) =>
      /\ inv.res[1].status = 200
      /\ inv.res[1].body.kind = "json"
      /\ inv.res[1].body.enhancedPrompt.t = "string"
      /\ inv.res[1].body.enhancedPrompt =
           IF HasContent(inv.completion[1])
           THEN inv.completion[1].choices[1][1].message[1].content
           ELSE Str(<<>>)

C5_Witness ==
  \E inv \in Responded :
    /\ PresentPrompt(inv)
    /\ inv.completion # <<>> /\ Len(inv.completion[1].choices) = 1
    /\ Len(inv.completion[1].choices[1]) = 2
    /\ inv.res[1].status = 200
    /\ inv.res[1].body.enhancedPrompt = Str(<<"A refined poem prompt...">>)

\* C6: an OPTIONS request is answered 200 with an empty body and the three
\* CORS headers, without reading the request body or calling the
\* completion API.
C6_Preflight ==
  \A inv \in Invocations :
    inv.req.method = "OPTIONS" =>
      /\ inv.res # <<>>
      /\ inv.res[1].status = 200
      /\ inv.res[1].body.kind = "empty"
      /\ { <<"Access-Control-Allow-Origin", "*">>,
           <<"Access-Control-Allow-Methods", "GET, POST, OPTIONS">>,
           <<"Access-Control-Allow-Headers", "Content-Type">> } \subseteq inv.res[1].headers
      /\ inv.trace \cap {"body", "validate", "client", "create"} = {}
      /\ inv.sent = <<>>

C6_Witness ==
  \E inv \in Invocations :
    /\ inv.req.method = "OPTIONS" /\ inv.req.body.present
    /\ inv.req.body.prompt = Str(<<"Write a poem">>)
    /\ inv.res # <<>> /\ inv.res[1].status = 200

\* ----------------------------------------------------------- page claims
Busy == enhanceBtnDisabled /\ ~loaderHidden

Cleared == ~enhanceBtnDisabled /\ loaderHidden

\* C7: once enhancePrompt has entered the busy state (button disabled,
\* loader shown), the busy state is eventually cleared (button enabled,
\* loader hidden), however the call ends.
C7_BusyEventuallyCleared == Busy ~> Cleared

C7_Witness ==
  /\ resultEl = <<"No result">>
  /\ calls = <<>>
  /\ Cleared

ClickStep == \E f \in FormChoices : Click(f[1], f[2])

\* C8: a click while the textarea is empty or holds only whitespace opens
\* the alert, calls fetch zero times (no call is started, nothing is sent),
\* leaves the button enabled and the loader hidden, and leaves the result
\* text unchanged.
C8_BlankClickIsLocal ==
  [][ (ClickStep /\ OnlyWhitespace(promptEl)) =>
        /\ ~alertOpen /\ alertOpen'
        /\ calls' = calls
        /\ invocations' = invocations
        /\ ~enhanceBtnDisabled' /\ loaderHidden'
        /\ UNCHANGED busyState
        /\ resultEl' = resultEl ]_vars

C8_Witness ==
  /\ alertOpen /\ promptEl = <<" ">>
  /\ calls = <<>> /\ Cleared
  /\ resultEl = <<"A refined poem prompt...">>

FieldOr(v, text) == IF Truthy(v) THEN v.s ELSE <<text>>

\* a step in which the one call in progress ends
CallEnds == Len(calls) = 1 /\ calls' = <<>>

Received == calls[1].res[1]

\* C9 as stated: when a call ends the result text follows from the status
\* alone: the enhancedPrompt field or "No result" on a success status, the
\* error field or "Failed to enhance prompt" on any other status, "Network
\* error" when no response was received.
C9_TextByStatus ==
  [][ CallEnds =>
        resultEl' =
          IF calls[1].pc = "fetch" THEN <<"Network error">>
          ELSE IF Received.status \in 200..299
          THEN FieldOr(Received.body.enhancedPrompt, "No result")
          ELSE FieldOr(Received.body.error, "Failed to enhance prompt") ]_vars

\* C9 amended: when a call ends with a body that arrived whole and decoded
\* as a JSON object, the result text is the enhancedPrompt field or "No
\* result" on a success status and the error field or "Failed to enhance
\* prompt" on any other status; when no response was received, or the body
\* could not be read or decoded, it is "Network error".  A 400, 405 or 500
\* of the endpoint that was decoded is shown as the endpoint's own error
\* text.
C9_TextByOutcome ==
  [][ CallEnds =>
        /\ resultEl' =
             IF calls[1].pc = "fetch" \/ Received.body.kind # "json"
             THEN <<"Network error">>
             ELSE IF Received.status \in 200..299
             THEN FieldOr(Received.body.enhancedPrompt, "No result")
             ELSE FieldOr(Received.body.error, "Failed to enhance prompt")
        /\ (calls[1].pc = "json" /\ Received.body.kind = "json"
              /\ Received.headers = CorsHeaders) =>
             /\ Received.status = 400 => resultEl' = <<"Missing prompt">>
             /\ Received.status = 405 => resultEl' = <<"Method not allowed">>
             /\ Received.status = 500 => resultEl' = <<"Failed to enhance prompt">> ]_vars

C9_Witness ==
  /\ resultEl = <<"Failed to enhance prompt">>
  /\ calls = <<>> /\ Cleared

\* C10: the page has at most one enhancement request outstanding; while one
\* is outstanding the button is disabled; a click with a prompt that is not
\* blank calls fetch exactly once, with a POST, and disables the button; the
\* button is re-enabled only when no request is outstanding any more.
C10_OneOutstandingRequest ==
  /\ [](Len(calls) <= 1 /\ (Len(calls) = 1 => enhanceBtnDisabled))
  /\ [][ /\ (ClickStep /\ ~OnlyWhitespace(promptEl)) =>
              /\ Len(calls') = Len(calls) + 1
              /\ SubSeq(calls', 1, Len(calls)) = calls
              /\ calls'[Len(calls')].req.method = "POST"
              /\ calls'[Len(calls')].net = "sent"
              /\ enhanceBtnDisabled'
         /\ (enhanceBtnDisabled /\ ~enhanceBtnDisabled') => calls' = <<>> ]_vars

C10_Witness ==
  /\ Len(calls) = 1 /\ calls[1].pc = "json"
  /\ enhanceBtnDisabled
  /\ resultEl = <<"Network error">>
  /\ Len(invocations) = 1 /\ invocations[1].origin = 0

====
